---- MODULE Spec2Model ----
(***************************************************************************)
(* The store of the todo application: RootStore (src/src/models/           *)
(* RootStore.js), its Todo items (src/src/models/Todo.js), the AsyncStorage*)
(* key it persists to, and the load that HomeScreen starts when it mounts  *)
(* (src/src/screens/HomeScreen.js).                                        *)
(*                                                                         *)
(* Strings are sequences of one-character strings.  A JSON text is a       *)
(* sequence of tokens; JSONstringify writes it and JSONparse reads it back.*)
(* AsyncStorage runs its requests one at a time in the order they were     *)
(* issued; each request either succeeds or is rejected.                    *)
(***************************************************************************)
EXTENDS Integers, Sequences, FiniteSets

\* ------------------------------------------------------------------ bounds
MaxTodos == 2      \* longest todos array explored
MaxClock == 2      \* Date.now() ranges over 1 .. MaxClock
MaxOps   == 2      \* most AsyncStorage requests in flight at once

\* ----------------------------------------------------------------- strings
Digit(d) == CASE d = 0 -> "0" [] d = 1 -> "1" [] d = 2 -> "2" [] d = 3 -> "3"
              [] d = 4 -> "4" [] d = 5 -> "5" [] d = 6 -> "6" [] d = 7 -> "7"
              [] d = 8 -> "8" [] d = 9 -> "9"

\* Number.prototype.toString(): the decimal digits, most significant first.
RECURSIVE NumberToString(_)
NumberToString(n) == IF n < 10 THEN <<Digit(n)>>
                     ELSE NumberToString(n \div 10) \o <<Digit(n % 10)>>

\* The titles addTodo is called with.
Titles == {<<"a">>, <<"b">>}

\* The ids deleteTodo is called with: those addTodo can make, and one more.
Ids == {NumberToString(c) : c \in 0 .. MaxClock + 1}

\* -------------------------------------------------------------------- JSON
Tok(t)  == [t |-> t, s |-> <<>>]
Str(s)  == [t |-> "str", s |-> s]
Num(s)  == [t |-> "num", s |-> s]
Key(k)  == [t |-> "key", s |-> <<k>>]
Bool(b) == Tok(IF b THEN "true" ELSE "false")

IsScalar(tok) == tok.t \in {"str", "num", "true", "false", "null"}

\* Faulty variant: the done flag is written as false whatever it is.
StringifyTodoDropsDone(todo) ==
    << Tok("{"), Key("id"), Str(todo.id), Tok(","),
       Key("title"), Str(todo.title), Tok(","),
       Key("done"), Bool(FALSE), Tok("}") >>

\* One Todo snapshot {"id":..,"title":..,"done":..}, in the model's property order.
StringifyTodo(todo) ==
    << Tok("{"), Key("id"), Str(todo.id), Tok(","),
       Key("title"), Str(todo.title), Tok(","),
       Key("done"), Bool(todo.done), Tok("}") >>

RECURSIVE StringifyElements(_)
StringifyElements(items) ==
    IF Len(items) = 0 THEN <<>>
    ELSE IF Len(items) = 1 THEN StringifyTodo(items[1])
    ELSE StringifyTodo(items[1]) \o <<Tok(",")>> \o StringifyElements(Tail(items))

\* JSON.stringify(getSnapshot(self.todos))
JSONstringify(items) == <<Tok("[")>> \o StringifyElements(items) \o <<Tok("]")>>

ParseFail == [ok |-> FALSE, val |-> <<>>]
ParseOk(v) == [ok |-> TRUE, val |-> v]

\* The members between the braces of an object: key value (, key value)*
RECURSIVE ParseMembers(_)
ParseMembers(ts) ==
    IF Len(ts) >= 2 /\ ts[1].t = "key" /\ IsScalar(ts[2])
    THEN LET pair == [k |-> ts[1].s[1], v |-> ts[2]]
         IN  IF Len(ts) = 2 THEN ParseOk(<<pair>>)
             ELSE IF ts[3].t = "," /\ Len(ts) > 3
                  THEN LET r == ParseMembers(SubSeq(ts, 4, Len(ts)))
                       IN  IF r.ok THEN ParseOk(<<pair>> \o r.val) ELSE ParseFail
                  ELSE ParseFail
    ELSE ParseFail

\* The index of the first token of kind t in ts, 0 when there is none.
FirstIndex(ts, t) ==
    IF \E i \in 1 .. Len(ts) : ts[i].t = t
    THEN CHOOSE i \in 1 .. Len(ts) :
            ts[i].t = t /\ \A j \in 1 .. i - 1 : ts[j].t # t
    ELSE 0

\* One value at the head of ts: a scalar or an object.  n is the number of
\* tokens it takes.
ParseValue(ts) ==
    IF Len(ts) = 0 THEN [ok |-> FALSE, n |-> 0, val |-> [kind |-> "none", members |-> <<>>]]
    ELSE IF IsScalar(ts[1])
    THEN [ok |-> TRUE, n |-> 1, val |-> [kind |-> ts[1].t, members |-> <<>>]]
    ELSE IF ts[1].t = "{"
    THEN LET close == FirstIndex(ts, "}")
         IN  IF close = 0
             THEN [ok |-> FALSE, n |-> 0, val |-> [kind |-> "none", members |-> <<>>]]
             ELSE IF close = 2
             THEN [ok |-> TRUE, n |-> 2, val |-> [kind |-> "object", members |-> <<>>]]
             ELSE LET r == ParseMembers(SubSeq(ts, 2, close - 1))
                  IN  [ok |-> r.ok, n |-> close,
                       val |-> [kind |-> "object", members |-> r.val]]
    ELSE [ok |-> FALSE, n |-> 0, val |-> [kind |-> "none", members |-> <<>>]]

\* The elements between the brackets of an array: value (, value)*
RECURSIVE ParseElements(_)
ParseElements(ts) ==
    LET v == ParseValue(ts)
    IN  IF ~v.ok THEN ParseFail
        ELSE IF v.n = Len(ts) THEN ParseOk(<<v.val>>)
        ELSE IF ts[v.n + 1].t = "," /\ Len(ts) > v.n + 1
             THEN LET r == ParseElements(SubSeq(ts, v.n + 2, Len(ts)))
                  IN  IF r.ok THEN ParseOk(<<v.val>> \o r.val) ELSE ParseFail
             ELSE ParseFail

\* JSON.parse(data): ok = FALSE is a SyntaxError; otherwise val is the parsed
\* value, kind "array" with its elements or the kind of a lone value.
JSONparse(text) ==
    IF Len(text) >= 2 /\ text[1].t = "[" /\ text[Len(text)].t = "]"
    THEN IF Len(text) = 2 THEN ParseOk([kind |-> "array", elems |-> <<>>])
         ELSE LET r == ParseElements(SubSeq(text, 2, Len(text) - 1))
              IN  IF r.ok THEN ParseOk([kind |-> "array", elems |-> r.val])
                  ELSE [ok |-> FALSE, val |-> [kind |-> "none", elems |-> <<>>]]
    ELSE LET v == ParseValue(text)
         IN  IF v.ok /\ v.n = Len(text)
             THEN ParseOk([kind |-> v.val.kind, elems |-> <<>>])
             ELSE [ok |-> FALSE, val |-> [kind |-> "none", elems |-> <<>>]]

\* --------------------------------------------------------------- Todo type
\* The value of key k in an object's members: JSON.parse keeps the last one.
HasKey(members, k) == \E i \in 1 .. Len(members) : members[i].k = k
Lookup(members, k) ==
    members[CHOOSE i \in 1 .. Len(members) :
                members[i].k = k /\ \A j \in i + 1 .. Len(members) : members[j].k # k].v

\* Todo.is(snapshot): id and title are strings, done is a boolean.
IsTodoSnapshot(v) ==
    /\ v.kind = "object"
    /\ HasKey(v.members, "id")    /\ Lookup(v.members, "id").t = "str"
    /\ HasKey(v.members, "title") /\ Lookup(v.members, "title").t = "str"
    /\ HasKey(v.members, "done")  /\ Lookup(v.members, "done").t \in {"true", "false"}

TodoFromSnapshot(v) ==
    [id    |-> Lookup(v.members, "id").s,
     title |-> Lookup(v.members, "title").s,
     done  |-> Lookup(v.members, "done").t = "true"]

\* Faulty variant: the toggled item moves to the end of the list.
ToggleMovesToEnd(items, i) ==
    SubSeq(items, 1, i - 1) \o SubSeq(items, i + 1, Len(items))
        \o <<[items[i] EXCEPT !.done = ~items[i].done]>>

\* Faulty variant: toggle marks the item done instead of flipping it.
ToggleSetsDone(items, i) == [items EXCEPT ![i].done = TRUE]

\* Todo.toggle, on the item at index i of items: self.done = !self.done
ToggleAt(items, i) == [items EXCEPT ![i].done = ~items[i].done]

\* ------------------------------------------------------------------- state
VARIABLES
    todos,      \* self.todos: the sequence of [id, title, done]
    isLoading,  \* self.isLoading
    storage,    \* AsyncStorage's value under STORAGE_KEY: [present, text]
    ops,        \* AsyncStorage requests in flight, oldest first
    clock,      \* what Date.now() returns
    mounted,    \* HomeScreen's mount effect has run
    ready,      \* the loadTodos() started by afterCreate has resolved
    last,       \* the step taken last: [op, wrote, logged, unhandled]
    sinceMutation \* "none": no mutation has changed todos yet; "failed": a
                \* write was rejected since the last one that did; else "clean"

vars == <<todos, isLoading, storage, ops, clock, mounted, ready, last, sinceMutation>>

Absent == [present |-> FALSE, text |-> <<>>]
Stored(text) == [present |-> TRUE, text |-> text]

\* A todo saved by an earlier run of the application.
OldTodo == [id |-> NumberToString(0), title |-> <<"a">>, done |-> TRUE]

\* What the key may hold when the application starts: nothing, the empty
\* string, a text cut short, a lone number, an array whose element has a
\* numeric id (the schema of the first version of the Todo model), and an
\* array this store saved.
InitialStorage ==
    { Absent,
      Stored(<<>>),
      Stored(<<Tok("["), Tok("{"), Key("id")>>),
      Stored(<<Num(<<"7">>)>>),
      Stored(<<Tok("["), Tok("{"), Key("id"), Num(<<"1">>), Tok(","),
               Key("title"), Str(<<"a">>), Tok(","),
               Key("done"), Bool(FALSE), Tok("}"), Tok("]")>>),
      Stored(JSONstringify(<<OldTodo>>)) }

GetItem(by) == [kind |-> "getItem", by |-> by, value |-> <<>>, snap |-> <<>>]
\* snap is the todos the value was made from; only the claims read it.
SetItem(by, items) ==
    [kind |-> "setItem", by |-> by, value |-> JSONstringify(items), snap |-> items]

\* A step's record: its name, whether it issued a write, whether it called
\* console.error, whether an error left it uncaught.
Step(op) == [op |-> op, wrote |-> FALSE, logged |-> FALSE, unhandled |-> FALSE]

\* ------------------------------------------------------- RootStore helpers
\* Faulty variant: unshift instead of push.
PushPrepends(items, id, title) ==
    <<[id |-> id, title |-> title, done |-> FALSE]>> \o items

\* self.todos.push({ id, title, done: false })
Push(items, id, title) == Append(items, [id |-> id, title |-> title, done |-> FALSE])

\* self.todos.findIndex(todo => todo.id === id), 1-based; 0 stands for -1.
FindIndex(items, id) ==
    IF \E i \in 1 .. Len(items) : items[i].id = id
    THEN CHOOSE i \in 1 .. Len(items) :
            items[i].id = id /\ \A j \in 1 .. i - 1 : items[j].id # id
    ELSE 0

\* Faulty variant: filter by id instead of splice(index, 1).
SpliceRemovesAllWithId(items, index) ==
    SelectSeq(items, LAMBDA t : t.id # items[index].id)

\* self.todos.splice(index, 1)
Splice(items, index) ==
    SubSeq(items, 1, index - 1) \o SubSeq(items, index + 1, Len(items))

\* Faulty variant: the loaded items are appended to the ones in memory.
ReplaceTodosKeepsOld(items, value) ==
    IF value.kind = "array" /\ \A i \in 1 .. Len(value.elems) : IsTodoSnapshot(value.elems[i])
    THEN [thrown |-> FALSE,
          items  |-> items \o [i \in 1 .. Len(value.elems) |-> TodoFromSnapshot(value.elems[i])]]
    ELSE [thrown |-> TRUE, items |-> items]

\* self.todos.replace(todosData): the array type checks every element before
\* it changes anything; a value that is no array of Todo snapshots throws.
ReplaceTodos(items, value) ==
    IF value.kind = "array" /\ \A i \in 1 .. Len(value.elems) : IsTodoSnapshot(value.elems[i])
    THEN [thrown |-> FALSE,
          items  |-> [i \in 1 .. Len(value.elems) |-> TodoFromSnapshot(value.elems[i])]]
    ELSE [thrown |-> TRUE, items |-> items]

\* Faulty variant: the catch block empties todos.
LoadResolvedClearsOnError(items, data) ==
    IF data.present /\ Len(data.text) > 0
    THEN LET parsed == JSONparse(data.text)
         IN  IF ~parsed.ok THEN [thrown |-> TRUE, items |-> <<>>]
             ELSE LET r == ReplaceTodos(items, parsed.val)
                  IN  IF r.thrown THEN [thrown |-> TRUE, items |-> <<>>] ELSE r
    ELSE [thrown |-> FALSE, items |-> items]

\* loadTodos after its yield, when getItem resolved with data: the todos it
\* leaves and whether the catch block ran.
LoadResolved(items, data) ==
    IF data.present /\ Len(data.text) > 0
    THEN LET parsed == JSONparse(data.text)
         IN  IF ~parsed.ok THEN [thrown |-> TRUE, items |-> items]
             ELSE ReplaceTodos(items, parsed.val)
    ELSE [thrown |-> FALSE, items |-> items]

\* ----------------------------------------------------------------- actions
\* createRootStore(): RootStore.create({todos: []}) runs afterCreate, which
\* calls loadTodos(): isLoading is true and the read is in flight.
Init ==
    /\ todos = <<>>
    /\ isLoading = TRUE
    /\ storage \in InitialStorage
    /\ ops = <<GetItem("afterCreate")>>
    /\ clock = 1
    /\ mounted = FALSE
    /\ ready = FALSE
    /\ last = Step("create")
    /\ sinceMutation = "none"

\* Time passes: Date.now() moves on.
Tick ==
    /\ clock < MaxClock
    /\ clock' = clock + 1
    /\ last' = Step("tick")
    /\ UNCHANGED <<todos, isLoading, storage, ops, mounted, ready, sinceMutation>>

\* addTodo(title)
AddTodo(title) ==
    /\ Len(todos) < MaxTodos
    /\ Len(ops) < MaxOps
    /\ todos' = Push(todos, NumberToString(clock), title)
    /\ ops' = Append(ops, SetItem("addTodo", todos'))
    /\ last' = [Step("addTodo") EXCEPT !.wrote = TRUE]
    /\ sinceMutation' = "clean"
    /\ UNCHANGED <<isLoading, storage, clock, mounted, ready>>

\* deleteTodo(id)
DeleteTodo(id) ==
    LET index == FindIndex(todos, id)
    IN  /\ IF index # 0
           THEN /\ Len(ops) < MaxOps
                /\ todos' = Splice(todos, index)
                /\ ops' = Append(ops, SetItem("deleteTodo", todos'))
           ELSE UNCHANGED <<todos, ops>>
        /\ last' = [Step("deleteTodo") EXCEPT !.wrote = (index # 0)]
        /\ sinceMutation' = (IF index # 0 THEN "clean" ELSE sinceMutation)
        /\ UNCHANGED <<isLoading, storage, clock, mounted, ready>>

\* Faulty variant: toggle without the call to saveTodos().
ToggleWithoutSave(i) ==
    /\ Len(ops) < MaxOps
    /\ todos' = ToggleAt(todos, i)
    /\ last' = Step("toggle")
    /\ sinceMutation' = "clean"
    /\ UNCHANGED <<ops, isLoading, storage, clock, mounted, ready>>

\* todo.toggle() on the item at index i
Toggle(i) ==
    /\ Len(ops) < MaxOps
    /\ todos' = ToggleAt(todos, i)
    /\ ops' = Append(ops, SetItem("toggle", todos'))
    /\ last' = [Step("toggle") EXCEPT !.wrote = TRUE]
    /\ sinceMutation' = "clean"
    /\ UNCHANGED <<isLoading, storage, clock, mounted, ready>>

\* Faulty variant: the effect has no dependency list and runs again.
MountOnEveryRender ==
    /\ Len(ops) < MaxOps
    /\ mounted' = TRUE
    /\ isLoading' = TRUE
    /\ ops' = Append(ops, GetItem("useEffect"))
    /\ last' = Step("mount")
    /\ UNCHANGED <<todos, storage, clock, ready, sinceMutation>>

\* HomeScreen's mount effect: rootStore.loadTodos() up to its yield.
Mount ==
    /\ ~mounted
    /\ Len(ops) < MaxOps
    /\ mounted' = TRUE
    /\ isLoading' = TRUE
    /\ ops' = Append(ops, GetItem("useEffect"))
    /\ last' = Step("mount")
    /\ UNCHANGED <<todos, storage, clock, ready, sinceMutation>>

\* getItem resolves and loadTodos runs on to its end.
LoadResolve ==
    /\ ops # <<>> /\ Head(ops).kind = "getItem"
    /\ todos' = LoadResolved(todos, storage).items
    /\ last' = [Step("loadResolve") EXCEPT !.logged = LoadResolved(todos, storage).thrown]
    /\ isLoading' = FALSE
    /\ ready' = (ready \/ Head(ops).by = "afterCreate")
    /\ ops' = Tail(ops)
    /\ UNCHANGED <<storage, clock, mounted, sinceMutation>>

\* Faulty variant: isLoading is reset in the try block only.
LoadRejectSkipsFinally ==
    /\ ops # <<>> /\ Head(ops).kind = "getItem"
    /\ last' = [Step("loadReject") EXCEPT !.logged = TRUE]
    /\ ready' = (ready \/ Head(ops).by = "afterCreate")
    /\ ops' = Tail(ops)
    /\ UNCHANGED <<todos, isLoading, storage, clock, mounted, sinceMutation>>

\* getItem is rejected: the catch block logs, the finally block runs.
LoadReject ==
    /\ ops # <<>> /\ Head(ops).kind = "getItem"
    /\ last' = [Step("loadReject") EXCEPT !.logged = TRUE]
    /\ isLoading' = FALSE
    /\ ready' = (ready \/ Head(ops).by = "afterCreate")
    /\ ops' = Tail(ops)
    /\ UNCHANGED <<todos, storage, clock, mounted, sinceMutation>>

\* setItem resolves: the key holds the value; saveTodos ends.
SaveResolve ==
    /\ ops # <<>> /\ Head(ops).kind = "setItem"
    /\ storage' = Stored(Head(ops).value)
    /\ ops' = Tail(ops)
    /\ last' = Step("saveResolve")
    /\ UNCHANGED <<todos, isLoading, clock, mounted, ready, sinceMutation>>

\* Faulty variant: the catch block issues the write again.
SaveRejectRetries ==
    /\ ops # <<>> /\ Head(ops).kind = "setItem"
    /\ ops' = Append(Tail(ops), Head(ops))
    /\ last' = [Step("saveReject") EXCEPT !.logged = TRUE]
    /\ sinceMutation' = "failed"
    /\ UNCHANGED <<todos, isLoading, storage, clock, mounted, ready>>

\* setItem is rejected: the catch block of saveTodos logs and that is all.
SaveReject ==
    /\ ops # <<>> /\ Head(ops).kind = "setItem"
    /\ ops' = Tail(ops)
    /\ last' = [Step("saveReject") EXCEPT !.logged = TRUE]
    /\ sinceMutation' = "failed"
    /\ UNCHANGED <<todos, isLoading, storage, clock, mounted, ready>>

\* An AsyncStorage request settles.
Settle == LoadReject \/ SaveReject \/ LoadResolve \/ SaveResolve

Next ==
    \/ Tick
    \/ \E title \in Titles : AddTodo(title)
    \/ \E id \in Ids : DeleteTodo(id)
    \/ \E i \in 1 .. Len(todos) : Toggle(i)
    \/ Mount
    \/ LoadResolve
    \/ LoadReject
    \/ SaveResolve
    \/ SaveReject

Spec == Init /\ [][Next]_vars

\* AsyncStorage settles every request it was given.
FairSpec == Spec /\ WF_vars(Settle)

\* ------------------------------------------------------------------- views
\* Faulty variant: the filter keeps the items that are not done.
CompletedCountOfOpenItems == Len(SelectSeq(todos, LAMBDA todo : ~todo.done))

\* get completedCount(): self.todos.filter(todo => todo.done).length
completedCount == Len(SelectSeq(todos, LAMBDA todo : todo.done))

\* get remainingCount(): self.todos.length - self.completedCount
remainingCount == Len(todos) - completedCount

\* -------------------------------------------------------------- HomeScreen
IsWhitespace(c) == c = " "

\* String.prototype.trim(): the text without the whitespace at its two ends.
RECURSIVE Trim(_)
Trim(text) ==
    IF text = <<>> THEN <<>>
    ELSE IF IsWhitespace(Head(text)) THEN Trim(Tail(text))
    ELSE IF IsWhitespace(text[Len(text)])
         THEN Trim(SubSeq(text, 1, Len(text) - 1))
    ELSE text

\* What the TextInput holds when ADD is pressed.
Texts == {<<>>, <<" ">>, <<"a">>, <<" ", "b", " ">>}

\* The list and its controls are rendered: the screen is mounted and the
\* branch that returns the loading view is not taken.
ControlsShown == mounted /\ ~isLoading

\* Faulty variant: the ADD button tests the text before trimming it.
PressAddTestsRawText(text) ==
    /\ ControlsShown
    /\ text # <<>>
    /\ AddTodo(Trim(text))

\* The ADD button: if (text.trim()) addTodo(text.trim())
PressAdd(text) ==
    /\ ControlsShown
    /\ Trim(text) # <<>>
    /\ AddTodo(Trim(text))

\* A row of the list is pressed: handleToggle(item)
PressItem(i) ==
    /\ ControlsShown
    /\ Toggle(i)

\* The delete button of row i, rendered only when item.done, is pressed:
\* deleteTodo(item.id)
PressDelete(i) ==
    /\ ControlsShown
    /\ todos[i].done
    /\ DeleteTodo(todos[i].id)

\* The store driven through HomeScreen only.
UINext ==
    \/ Tick
    \/ \E text \in Texts : PressAdd(text)
    \/ \E i \in 1 .. Len(todos) : PressItem(i)
    \/ \E i \in 1 .. Len(todos) : PressDelete(i)
    \/ Mount
    \/ LoadResolve
    \/ LoadReject
    \/ SaveResolve
    \/ SaveReject

UISpec == Init /\ [][UINext]_vars

\* ------------------------------------------------------------------ claims
Mutations =={"addTodo", "deleteTodo", "toggle"}

LoadInFlight(q) == \E k \in 1 .. Len(q) : q[k].kind = "getItem"
NumLoads(q)  == Len(SelectSeq(q, LAMBDA o : o.kind = "getItem"))
NumWrites(q) == Len(SelectSeq(q, LAMBDA o : o.kind = "setItem"))

\* The oldest request is a read and this step settles it.
ReadSettles  == ops # <<>> /\ Head(ops).kind = "getItem" /\ ops' = Tail(ops)

\* data deserializes into a list of items.
CanDeserialize(text) ==
    /\ JSONparse(text).ok
    /\ JSONparse(text).val.kind = "array"
    /\ \A k \in 1 .. Len(JSONparse(text).val.elems) :
          IsTodoSnapshot(JSONparse(text).val.elems[k])

\* C1: no two items of todos have the same id, also when two addTodo calls
\* read the same Date.now().
C1_UniqueIds ==
    \A i, j \in 1 .. Len(todos) : i # j => todos[i].id # todos[j].id

\* C2 as stated: once the load started at construction has resolved,
\* isLoading is never true again and no further load is started.
C2_ReadyIsTerminal ==
    [][ready => (~isLoading' /\ NumLoads(ops') <= NumLoads(ops))]_vars

\* C2 amended: once the load started at construction and the load started by
\* HomeScreen's mount effect have both resolved, isLoading is never true
\* again and no further load is started; and isLoading is true only while
\* one of these two loads is in flight.
C2_BothLoadsTerminal ==
    /\ [](isLoading => LoadInFlight(ops))
    /\ [][(ready /\ mounted /\ ~LoadInFlight(ops))
            => (~isLoading' /\ ~LoadInFlight(ops'))]_vars

C2_Witness ==
    ready /\ mounted /\ ~LoadInFlight(ops) /\ last.op = "addTodo"

\* C3: every loadTodos() whose read settles, resolved or rejected, ends with
\* isLoading false; and if requests keep settling, isLoading is eventually
\* false whenever it is true.
C3_LoadEndsNotLoading ==
    /\ [][ReadSettles => ~isLoading']_vars
    /\ (isLoading ~> ~isLoading)

C3_Witness ==
    last.op = "loadReject" /\ ~isLoading /\ mounted /\ ready

\* C4: when the read is rejected, or resolves with data that does not
\* deserialize into a list of items, loadTodos() leaves todos as they were
\* and sets isLoading to false.
C4_FailedLoadKeepsTodos ==
    [][(ReadSettles /\ (\/ last'.op = "loadReject"
                        \/ storage.present /\ ~CanDeserialize(storage.text)))
          => (todos' = todos /\ ~isLoading')]_vars

C4_Witness ==
    /\ last.op = "loadResolve" /\ last.logged
    /\ Len(todos) > 0 /\ ~isLoading
    /\ storage.present /\ ~CanDeserialize(storage.text)

\* C5: when a write of saveTodos() has succeeded, a fresh store (todos = [])
\* that loads what the key then holds gets exactly the items the write was
\* made from: same ids, titles, done flags and order.
C5_RoundTrip ==
    [][last'.op = "saveResolve"
          => LoadResolved(<<>>, storage').items = Head(ops).snap]_vars

C5_Witness ==
    /\ last.op = "saveResolve"
    /\ Len(todos) = 2 /\ todos[1].done /\ ~todos[2].done
    /\ LoadResolved(<<>>, storage).items = todos

\* C6: addTodo(title) makes todos one longer, the new last item has the given
\* title and done = false, and every earlier item is where and what it was.
C6_AddAppends ==
    [][\A title \in Titles : AddTodo(title) =>
          /\ Len(todos') = Len(todos) + 1
          /\ todos'[Len(todos')].title = title
          /\ todos'[Len(todos')].done = FALSE
          /\ \A k \in 1 .. Len(todos) : todos'[k] = todos[k]]_vars

C6_Witness ==
    last.op = "addTodo" /\ Len(todos) = 2 /\ todos[1].done

\* C7: deleteTodo(id) removes the first item whose id is id and keeps the
\* others in their order; with no such item it changes nothing and raises
\* no error.
C7_DeleteRemovesFirstMatch ==
    [][\A id \in Ids : DeleteTodo(id) =>
          /\ ~last'.unhandled
          /\ IF \E k \in 1 .. Len(todos) : todos[k].id = id
             THEN \E k \in 1 .. Len(todos) :
                    /\ todos[k].id = id
                    /\ \A j \in 1 .. k - 1 : todos[j].id # id
                    /\ Len(todos') = Len(todos) - 1
                    /\ \A j \in 1 .. k - 1 : todos'[j] = todos[j]
                    /\ \A j \in k .. Len(todos) - 1 : todos'[j] = todos[j + 1]
             ELSE todos' = todos]_vars

C7_Witness ==
    last.op = "deleteTodo" /\ last.wrote /\ Len(todos) = 1

\* C8: toggle() flips the done flag of its item and changes nothing else in
\* todos; toggling the same item twice gives back the original todos.
C8_ToggleFlipsOnly ==
    /\ [][\A i \in 1 .. Len(todos) : Toggle(i) =>
            /\ Len(todos') = Len(todos)
            /\ \A k \in 1 .. Len(todos) :
                  /\ todos'[k].id = todos[k].id
                  /\ todos'[k].title = todos[k].title
                  /\ todos'[k].done = (IF k = i THEN ~todos[k].done ELSE todos[k].done)]_vars
    /\ [](\A i \in 1 .. Len(todos) : ToggleAt(ToggleAt(todos, i), i) = todos)

C8_Witness ==
    last.op = "toggle" /\ Len(todos) = 2 /\ todos[2].done /\ ~todos[1].done

\* C9: a mutation that changes todos issues exactly one write, behind the
\* requests already in flight, whose value is the serialization of todos as
\* the mutation left them; a deleteTodo that finds no item issues none.
C9_OneWritePerMutation ==
    [][last'.op \in Mutations =>
          IF todos' # todos
          THEN /\ Len(ops') = Len(ops) + 1
               /\ SubSeq(ops', 1, Len(ops)) = ops
               /\ ops'[Len(ops')].kind = "setItem"
               /\ ops'[Len(ops')].value = JSONstringify(todos')
          ELSE /\ last'.op = "deleteTodo"
               /\ ops' = ops]_vars

C9_Witness ==
    /\ last.op = "toggle" /\ Len(ops) = 2
    /\ ops[1].kind = "setItem" /\ ops[1].value # ops[2].value
    /\ ops[2].value = JSONstringify(todos)

\* C10: a rejected write changes neither todos nor isLoading nor the stored
\* value, leaves no error uncaught and is not tried again; no step other
\* than a mutation issues a write.
C10_FailedWriteIsDropped ==
    /\ [][last'.op = "saveReject" =>
            /\ todos' = todos /\ isLoading' = isLoading /\ storage' = storage
            /\ ~last'.unhandled
            /\ ops' = Tail(ops)]_vars
    /\ [][last'.op \notin Mutations => NumWrites(ops') <= NumWrites(ops)]_vars

C10_Witness ==
    /\ last.op = "saveReject" /\ last.logged
    /\ Len(todos) > 0 /\ ~storage.present /\ ops = <<>>

\* The sequence of items a deserializable text stands for.
Deserialize(text) ==
    [k \in 1 .. Len(JSONparse(text).val.elems) |->
        TodoFromSnapshot(JSONparse(text).val.elems[k])]

\* C11: when the read of loadTodos() resolves with a stored text that
\* deserializes, todos becomes exactly the deserialized sequence, whatever it
\* held before; when the key holds no value, todos stays exactly as it was.
C11_LoadReplacesWholesale ==
    [][(ReadSettles /\ last'.op = "loadResolve") =>
          /\ (storage.present /\ CanDeserialize(storage.text))
                => todos' = Deserialize(storage.text)
          /\ ~storage.present => todos' = todos]_vars

\* A load has just replaced todos by the stored item while the write of an
\* addTodo made before it, holding two items, is still in flight.
C11_Witness ==
    /\ last.op = "loadResolve" /\ ~last.logged
    /\ storage.present /\ CanDeserialize(storage.text)
    /\ todos = Deserialize(storage.text) /\ Len(todos) = 1
    /\ ops # <<>> /\ ops[1].kind = "setItem" /\ Len(ops[1].snap) = 2

\* C12: in every reachable state completedCount is the number of items with
\* done = true, remainingCount is the length of todos minus completedCount,
\* the two add up to the length of todos, and neither is negative.
C12_CountsAgree ==
    /\ completedCount = Cardinality({k \in 1 .. Len(todos) : todos[k].done})
    /\ remainingCount = Len(todos) - completedCount
    /\ completedCount + remainingCount = Len(todos)
    /\ completedCount >= 0 /\ remainingCount >= 0

C12_Witness ==
    /\ Len(todos) = 2 /\ todos[1].done /\ ~todos[2].done
    /\ completedCount = 1 /\ remainingCount = 1

\* The ids addTodo can give: Date.now() is never 0, the id of the item the
\* store may find in storage when it starts.
AddedIds == {NumberToString(c) : c \in 1 .. MaxClock}

\* C13: an item appended by addTodo is in todos in every later state until a
\* deleteTodo removes it: no step other than a deleteTodo, in particular no
\* completion of a loadTodos() call, takes an added item out of todos.
C13_AddedItemStays ==
    [][last'.op # "deleteTodo" =>
          \A k \in 1 .. Len(todos) :
              todos[k].id \in AddedIds
                  => \E j \in 1 .. Len(todos') : todos'[j].id = todos[k].id]_vars

\* C14: whenever no request is in flight, a mutation has changed todos, and
\* no write was rejected since the last such mutation, the text stored under
\* the key deserializes to exactly todos: same ids, titles, done flags, order.
C14_StorageMatchesMemory ==
    (ops = <<>> /\ sinceMutation = "clean") =>
        /\ storage.present
        /\ CanDeserialize(storage.text)
        /\ Deserialize(storage.text) = todos

\* C15: isLoading is true in every state in which a loadTodos() call is in
\* flight, also when two loads overlap, so the screen shows none of its
\* controls while a load is in flight.
C15_LoadingWhileLoadInFlight ==
    LoadInFlight(ops) => (isLoading /\ ~ControlsShown)

\* The items of a list without their done flags.
Entries(items) == [k \in 1 .. Len(items) |-> <<items[k].id, items[k].title>>]

\* a can be had from b by leaving elements out, the others staying in order.
RECURSIVE IsSubsequence(_, _)
IsSubsequence(a, b) ==
    IF a = <<>> THEN TRUE
    ELSE IF b = <<>> THEN FALSE
    ELSE IF Head(a) = Head(b) THEN IsSubsequence(Tail(a), Tail(b))
    ELSE IsSubsequence(a, Tail(b))

\* This step is a load that replaces todos by what the key holds.
LoadReplaces ==
    /\ ReadSettles /\ last'.op = "loadResolve"
    /\ storage.present /\ CanDeserialize(storage.text)

\* C16: as long as no load replaces todos, todos is the sequence of the added
\* items in the order they were added, without the deleted ones: a step
\* either appends one item behind the items there are, or leaves the
\* surviving items in the order they had.
C16_OrderKept ==
    [][~LoadReplaces =>
          \/ /\ last'.op = "addTodo"
             /\ Len(todos') = Len(todos) + 1
             /\ SubSeq(Entries(todos'), 1, Len(todos)) = Entries(todos)
          \/ /\ last'.op # "addTodo"
             /\ IsSubsequence(Entries(todos'), Entries(todos))]_vars

\* Two items added one after the other are still in that order after the
\* first was toggled.
C16_Witness ==
    /\ last.op = "toggle" /\ Len(todos) = 2
    /\ todos[1].id = NumberToString(1) /\ todos[2].id = NumberToString(2)
    /\ todos[1].done /\ ~todos[2].done

\* items without the item at index k.
Without(items, k) ==
    [j \in 1 .. Len(items) - 1 |-> IF j < k THEN items[j] ELSE items[j + 1]]

\* C17: the delete button is pressed only on an item whose done flag is true
\* at that moment, and the item the press takes out of todos is one whose
\* done flag is true: no item that is not done is removed.
C17_OnlyDoneItemsRemoved ==
    [][\A i \in 1 .. Len(todos) : PressDelete(i) =>
          /\ todos[i].done
          /\ \A k \in 1 .. Len(todos) :
                todos' = Without(todos, k) => todos[k].done]_vars

\* C18: in every state reached through HomeScreen, which calls addTodo with
\* trimmed text only when that is not empty, and through loads of what the
\* store wrote, every item of todos has a title that is not empty.
C18_NoEmptyTitle ==
    \A k \in 1 .. Len(todos) : todos[k].title # <<>>

\* The item loaded from storage is followed by one that was entered with
\* blanks around its text.
C18_Witness ==
    /\ last.op = "addTodo" /\ Len(todos) = 2
    /\ todos[1] = OldTodo
    /\ todos[2].title = <<"b">> /\ Trim(<<" ", "b", " ">>) = todos[2].title

====
